---- MODULE Spec2Model ----
(***************************************************************************)
(* HRMS Lite API: the employee roster and the attendance records, the two  *)
(* tables of app/models.py and the request handlers of app/routers.        *)
(*                                                                         *)
(* A write handler runs as several steps (its reads, then its commit), so  *)
(* requests of different workers interleave between a handler's pre-check  *)
(* and its commit.  The store decides a commit on the rows it holds at     *)
(* that moment: its unique constraints and its foreign key raise           *)
(* IntegrityError.  A read handler is one step (one transaction snapshot). *)
(* A write handler's reads are one step as well: they only decide whether  *)
(* the handler answers at once or goes on to its commit, and no commit of  *)
(* another request between two of them changes what a later step answers.  *)
(* Only a handler's last step changes the tables, and that step also       *)
(* records the response in `last`; so `last` always describes the most     *)
(* recent response and the tables as that response left them.              *)
(***************************************************************************)
EXTENDS Integers, Sequences, FiniteSets, Bags, TLC

VARIABLES
    employees,    \* rows of table "employees"
    attendance,   \* rows of table "attendance"
    nextEmpId,    \* autoincrement counter of employees.id
    nextAttId,    \* autoincrement counter of attendance.id
    pending,      \* bag of the requests in hand, each with the step it is at
    last          \* the most recent response

vars == <<employees, attendance, nextEmpId, nextAttId, pending, last>>

\* ---------------------------------------------------------------- bounds
\* rows inserted over a run, both tables together
MaxInserts == 3

Workers == {"w1", "w2"}

\* request inputs; "" is the empty string, "bad" a string that is no email
EmployeeIdInputs == {"", "E1", "E2"}
Dates == {1, 2}
\* the range bounds tried: each excludes one of the dates
StartDates == {2}
EndDates == {1}

\* create requests: the well-formed ones, and one with each field malformed
EmployeeCreateInputs ==
    [employee_id : {"E1", "E2"}, full_name : {"Alice"},
     email : {"a@x.com", "b@x.com"}, department : {"Eng"}]
    \cup {[employee_id |-> "", full_name |-> "Alice", email |-> "a@x.com", department |-> "Eng"],
          [employee_id |-> "E1", full_name |-> "", email |-> "a@x.com", department |-> "Eng"],
          [employee_id |-> "E1", full_name |-> "Alice", email |-> "bad", department |-> "Eng"],
          [employee_id |-> "E1", full_name |-> "Alice", email |-> "a@x.com", department |-> ""]}

\* Optional[T]: {} is None, {v} is a supplied value
Optional(S) == {{}} \cup {{v} : v \in S}

\* ------------------------------------------------------------ status codes
HTTP_201_CREATED == 201
HTTP_204_NO_CONTENT == 204
HTTP_400_BAD_REQUEST == 400
HTTP_404_NOT_FOUND == 404
HTTP_409_CONFLICT == 409

Response(op, arg, at, status, body) ==
    [op |-> op, arg |-> arg, at |-> at, status |-> status, body |-> body]

\* FastAPI's answer to a request body the schema rejects
RequestValidationError(op, arg) == Response(op, arg, "validate", 422, <<>>)

\* --------------------------------------------------------------- schemas
ValidEmail(s) == s \in {"a@x.com", "b@x.com"}

EmployeeCreate(e) ==
    /\ e.employee_id # ""
    /\ e.full_name # ""
    /\ ValidEmail(e.email)
    /\ e.department # ""

AttendanceCreate(a) == a.employee_id # ""

\* ----------------------------------------------------------------- store
\* db.query(Employee).filter(Employee.employee_id == employee_id)
EmployeeQuery(employee_id) == {e \in employees : e.employee_id = employee_id}

\* db.query(Employee).filter(Employee.email == email)
EmployeeEmailQuery(email) == {e \in employees : e.email = email}

\* db.query(Attendance).filter(and_(employee_id == ..., date == ...))
AttendanceQuery(employee_id, date) ==
    {r \in attendance : r.employee_id = employee_id /\ r.date = date}

\* the table without unique=True on email
EmployeeIntegrityError_NoEmail(row) ==
    \E e \in employees : e.employee_id = row.employee_id

\* the unique constraints of table employees: employee_id, email
EmployeeIntegrityError(row) ==
    \E e \in employees : e.employee_id = row.employee_id \/ e.email = row.email

\* the constraints of table attendance: uc_employee_date (employee_id, date) and
\* the foreign key employee_id -> employees.employee_id
UniqueViolation(row) ==
    \E r \in attendance : r.employee_id = row.employee_id /\ r.date = row.date

ForeignKeyViolation(row) ==
    ~\E e \in employees : e.employee_id = row.employee_id

\* the table without uc_employee_date, and without the foreign key
AttendanceIntegrityError_NoUnique(row) == ForeignKeyViolation(row)

AttendanceIntegrityError_NoForeignKey(row) == UniqueViolation(row)

\* an insert into attendance raises IntegrityError
AttendanceIntegrityError(row) == UniqueViolation(row) \/ ForeignKeyViolation(row)

\* ondelete="CASCADE": the rows referencing a deleted employee go with it
CascadeDelete(rows, deleted) ==
    {r \in rows : \A d \in deleted : r.employee_id # d.employee_id}

\* a rollback that leaves the rejected row behind
RollbackFlushed(table, row) == table \cup {row}

\* db.rollback(): the row added to the session is discarded
Rollback(table, row) == table

\* ------------------------------------------------------- create_employee
EmployeeRow(id, e) ==
    [id |-> id, employee_id |-> e.employee_id, full_name |-> e.full_name,
     email |-> e.email, department |-> e.department]

\* a worker takes a new request when it is idle
Receive == BagCardinality(pending) < Cardinality(Workers)

\* the request is answered at its first step: nothing is left in hand
Answer(resp) == last' = resp /\ UNCHANGED pending

\* the first step leaves request q in hand
Continue(q) == pending' = pending (+) SetToBag({q}) /\ UNCHANGED last

\* request q, in hand, is answered
Finish(q, resp) == pending' = pending (-) SetToBag({q}) /\ last' = resp

\* the requests in hand at step pc of handler op
InHand(op, pc) == {q \in BagToSet(pending) : q.op = op /\ q.pc = pc}

\* rows inserted so far, and those the requests in hand may still insert
Inserting == {q \in BagToSet(pending) : q.op \in {"create_employee", "mark_attendance"}}

Inserts ==
    (nextEmpId - 1) + (nextAttId - 1) + BagCardinality([q \in Inserting |-> pending[q]])

\* schema validation and the two pre-checks (one transaction snapshot)
create_employee_check ==
    /\ Receive
    /\ Inserts < MaxInserts
    /\ \E e \in EmployeeCreateInputs :
        IF ~EmployeeCreate(e)
        THEN Answer(RequestValidationError("create_employee", e))
        ELSE IF EmployeeQuery(e.employee_id) # {}
        THEN Answer(Response("create_employee", e, "check", HTTP_409_CONFLICT,
                             "Employee ID already exists"))
        ELSE IF EmployeeEmailQuery(e.email) # {}
        THEN Answer(Response("create_employee", e, "check", HTTP_409_CONFLICT,
                             "Email already exists"))
        ELSE Continue([op |-> "create_employee", pc |-> "commit", arg |-> e])
    /\ UNCHANGED <<employees, attendance, nextEmpId, nextAttId>>

\* db.add(db_employee); db.commit(), and the except branches
create_employee_commit ==
    /\ \E q \in InHand("create_employee", "commit") :
        LET row == EmployeeRow(nextEmpId, q.arg) IN
        IF EmployeeIntegrityError(row)
        THEN /\ employees' = Rollback(employees, row)
             /\ Finish(q, Response("create_employee", q.arg, "commit",
                                   HTTP_400_BAD_REQUEST, "Invalid data provided"))
             /\ UNCHANGED nextEmpId
        ELSE /\ employees' = employees \cup {row}
             /\ nextEmpId' = nextEmpId + 1
             /\ Finish(q, Response("create_employee", q.arg, "commit",
                                   HTTP_201_CREATED, row))
    /\ UNCHANGED <<attendance, nextAttId>>

\* ------------------------------------------------------- delete_employee
PathEmployeeIds == {"E1", "E2"}

NotFound(op, arg, employee_id) ==
    Response(op, arg, "lookup", HTTP_404_NOT_FOUND, employee_id)

delete_employee_lookup ==
    /\ Receive
    /\ \E employee_id \in PathEmployeeIds :
        IF EmployeeQuery(employee_id) = {}
        THEN Answer(NotFound("delete_employee", employee_id, employee_id))
        ELSE \E employee \in EmployeeQuery(employee_id) :
                Continue([op |-> "delete_employee", pc |-> "commit",
                          arg |-> employee_id, employee |-> employee])
    /\ UNCHANGED <<employees, attendance, nextEmpId, nextAttId>>

\* db.delete(employee): DELETE FROM employees WHERE id = :id of the loaded row,
\* which matches no row when that row is gone
DeletedRows(employee) == {e \in employees : e.id = employee.id}

\* db.delete(employee); db.commit(); return None: the response is 204 either way
delete_employee_commit ==
    /\ \E q \in InHand("delete_employee", "commit") :
        /\ employees' = employees \ DeletedRows(q.employee)
        /\ attendance' = CascadeDelete(attendance, DeletedRows(q.employee))
        /\ Finish(q, Response("delete_employee", q.arg, "commit",
                              HTTP_204_NO_CONTENT, <<>>))
    /\ UNCHANGED <<nextEmpId, nextAttId>>

\* ------------------------------------------------------- mark_attendance
AttendanceRow(id, a) ==
    [id |-> id, employee_id |-> a.employee_id, date |-> a.date,
     is_present |-> a.is_present]

\* the branch answering as create_employee's does
MarkIntegrityErrorStatus_BadRequest == HTTP_400_BAD_REQUEST

\* status of the except IntegrityError branch
MarkIntegrityErrorStatus == HTTP_409_CONFLICT

\* schema validation, the employee lookup and the existence check
mark_attendance_check ==
    /\ Receive
    /\ Inserts < MaxInserts
    /\ \E a \in [employee_id : EmployeeIdInputs, date : Dates, is_present : BOOLEAN] :
        IF ~AttendanceCreate(a)
        THEN Answer(RequestValidationError("mark_attendance", a))
        ELSE IF EmployeeQuery(a.employee_id) = {}
        THEN Answer(NotFound("mark_attendance", a, a.employee_id))
        ELSE IF AttendanceQuery(a.employee_id, a.date) # {}
        THEN Answer(Response("mark_attendance", a, "check", HTTP_409_CONFLICT,
                             "already exists"))
        ELSE Continue([op |-> "mark_attendance", pc |-> "commit", arg |-> a])
    /\ UNCHANGED <<employees, attendance, nextEmpId, nextAttId>>

\* db.add(db_attendance); db.commit(), and the except branches
mark_attendance_commit ==
    /\ \E q \in InHand("mark_attendance", "commit") :
        LET row == AttendanceRow(nextAttId, q.arg) IN
        IF AttendanceIntegrityError(row)
        THEN /\ attendance' = Rollback(attendance, row)
             /\ Finish(q, Response("mark_attendance", q.arg, "commit",
                                   MarkIntegrityErrorStatus, "already exists"))
             /\ UNCHANGED nextAttId
        ELSE /\ attendance' = attendance \cup {row}
             /\ nextAttId' = nextAttId + 1
             /\ Finish(q, Response("mark_attendance", q.arg, "commit",
                                   HTTP_201_CREATED, row))
    /\ UNCHANGED <<employees, nextEmpId>>

\* ----------------------------------------------------------------- reads
\* the orders in which a query may return the rows of S
Listings(S) ==
    {s \in [1..Cardinality(S) -> S] : \A i, j \in 1..Cardinality(S) : s[i] = s[j] => i = j}

\* .order_by(Attendance.date.desc()): rows of one date come in any order
OrderByDateDesc(S) ==
    {s \in Listings(S) : \A i, j \in 1..Cardinality(S) : i < j => s[i].date >= s[j].date}

\* `if x:` on an Optional[date] and on an Optional[str]
TruthyDate(opt) == opt # {}
TruthyStr(opt) == opt # {} /\ opt # {""}

list_employees ==
    /\ Receive
    /\ \E body \in Listings(employees) :
        Answer(Response("list_employees", <<>>, "query", 200, body))
    /\ UNCHANGED <<employees, attendance, nextEmpId, nextAttId>>

get_employee ==
    /\ Receive
    /\ \E employee_id \in PathEmployeeIds :
        IF EmployeeQuery(employee_id) = {}
        THEN Answer(NotFound("get_employee", employee_id, employee_id))
        ELSE \E employee \in EmployeeQuery(employee_id) :
                Answer(Response("get_employee", employee_id, "query", 200, employee))
    /\ UNCHANGED <<employees, attendance, nextEmpId, nextAttId>>

EmployeeAttendance(employee_id, start_date, end_date) ==
    {r \in attendance :
        /\ r.employee_id = employee_id
        /\ TruthyDate(start_date) => \A d \in start_date : r.date >= d
        /\ TruthyDate(end_date) => \A d \in end_date : r.date <= d}

get_employee_attendance ==
    /\ Receive
    /\ \E employee_id \in PathEmployeeIds,
          start_date \in Optional(StartDates), end_date \in Optional(EndDates) :
        LET arg == [employee_id |-> employee_id, start_date |-> start_date,
                    end_date |-> end_date] IN
        IF EmployeeQuery(employee_id) = {}
        THEN Answer(NotFound("get_employee_attendance", arg, employee_id))
        ELSE \E body \in OrderByDateDesc(EmployeeAttendance(employee_id, start_date, end_date)) :
                Answer(Response("get_employee_attendance", arg, "query", 200, body))
    /\ UNCHANGED <<employees, attendance, nextEmpId, nextAttId>>

\* func.count(Attendance.id) over the rows filtered by employee_id and is_present
PresentCount(employee_id) ==
    Cardinality({r \in attendance : r.employee_id = employee_id /\ r.is_present = TRUE})

\* the absent count without its employee_id filter
AbsentCount_AllEmployees(employee_id) ==
    Cardinality({r \in attendance : r.is_present = FALSE})

AbsentCount(employee_id) ==
    Cardinality({r \in attendance : r.employee_id = employee_id /\ r.is_present = FALSE})

get_attendance_summary ==
    /\ Receive
    /\ \E employee_id \in PathEmployeeIds :
        IF EmployeeQuery(employee_id) = {}
        THEN Answer(NotFound("get_attendance_summary", employee_id, employee_id))
        ELSE \E employee \in EmployeeQuery(employee_id) :
                Answer(Response("get_attendance_summary", employee_id, "query", 200,
                    [employee_id |-> employee.employee_id,
                     full_name |-> employee.full_name,
                     total_present_days |-> PresentCount(employee_id),
                     total_absent_days |-> AbsentCount(employee_id)]))
    /\ UNCHANGED <<employees, attendance, nextEmpId, nextAttId>>

AttendanceFiltered(date, employee_id) ==
    {r \in attendance :
        /\ TruthyDate(date) => \A d \in date : r.date = d
        /\ TruthyStr(employee_id) => \A e \in employee_id : r.employee_id = e}

list_attendance ==
    /\ Receive
    /\ \E date \in Optional(Dates), employee_id \in Optional(EmployeeIdInputs) :
        \E body \in OrderByDateDesc(AttendanceFiltered(date, employee_id)) :
            Answer(Response("list_attendance",
                               [date |-> date, employee_id |-> employee_id],
                               "query", 200, body))
    /\ UNCHANGED <<employees, attendance, nextEmpId, nextAttId>>

\* ------------------------------------------------------------------ spec
Init ==
    /\ employees = {}
    /\ attendance = {}
    /\ nextEmpId = 1
    /\ nextAttId = 1
    /\ pending = EmptyBag
    /\ last = Response("none", <<>>, "none", 0, <<>>)

Next ==
    \/ create_employee_check
    \/ create_employee_commit
    \/ delete_employee_lookup
    \/ delete_employee_commit
    \/ mark_attendance_check
    \/ mark_attendance_commit
    \/ list_employees
    \/ get_employee
    \/ get_employee_attendance
    \/ get_attendance_summary
    \/ list_attendance

Spec == Init /\ [][Next]_vars

\* ---------------------------------------------------------------- claims
\* this step answers a request of handler op (a first step that leaves the
\* request in hand adds to pending and answers nothing)
Answered == BagCardinality(pending') <= BagCardinality(pending)
Answers(op) == Answered /\ last'.op = op

\* number of rows of S with is_present = b, counted row by row
RECURSIVE CountRows(_, _)
CountRows(S, b) ==
    IF S = {} THEN 0
    ELSE LET r == CHOOSE x \in S : TRUE IN
         (IF r.is_present = b THEN 1 ELSE 0) + CountRows(S \ {r}, b)

RowsOf(employee_id) == {r \in attendance : r.employee_id = employee_id}

\* C1: in every reachable state no two stored employees share an employee_id
\* and no two stored employees share an email.
C1_EmployeesUnique ==
    \A e1, e2 \in employees :
        (e1.employee_id = e2.employee_id \/ e1.email = e2.email) => e1 = e2

\* a create that passed its pre-checks and was rejected by the store at commit
C1_Witness ==
    /\ last.op = "create_employee"
    /\ last.at = "commit"
    /\ last.status = HTTP_400_BAD_REQUEST
    /\ \E e \in employees : e.email = last.arg.email /\ e.employee_id # last.arg.employee_id

\* C2: in every reachable state there is at most one stored attendance record
\* for each pair (employee_id, date).
C2_AttendanceUnique ==
    \A r1, r2 \in attendance :
        (r1.employee_id = r2.employee_id /\ r1.date = r2.date) => r1 = r2

\* a mark that passed its existence check and lost the race to a concurrent one
C2_Witness ==
    /\ last.op = "mark_attendance"
    /\ last.at = "commit"
    /\ last.status # HTTP_201_CREATED
    /\ AttendanceQuery(last.arg.employee_id, last.arg.date) # {}

\* C3: a well-formed create-employee request that is answered while an employee
\* with its employee_id or its email is stored is answered 409 Conflict, at the
\* pre-check and at the commit alike, and leaves the stored employees as they were.
C3_DuplicateCreateConflicts ==
    [][(/\ Answers("create_employee")
        /\ EmployeeCreate(last'.arg)
        /\ \E e \in employees :
              e.employee_id = last'.arg.employee_id \/ e.email = last'.arg.email)
       => (last'.status = HTTP_409_CONFLICT /\ employees' = employees)]_vars

\* C4: a well-formed mark-attendance request that is answered while a record of
\* its (employee_id, date) is stored is answered 409 Conflict whatever its
\* is_present, at the existence check and at the commit alike, and the stored
\* records (so the first record's is_present) stay as they were.
C4_DuplicateMarkConflicts ==
    [][(/\ Answers("mark_attendance")
        /\ AttendanceCreate(last'.arg)
        /\ AttendanceQuery(last'.arg.employee_id, last'.arg.date) # {})
       => (last'.status = HTTP_409_CONFLICT /\ attendance' = attendance)]_vars

\* a mark rejected at commit, the stored record having the other is_present
C4_Witness ==
    /\ last.op = "mark_attendance"
    /\ last.at = "commit"
    /\ last.status = HTTP_409_CONFLICT
    /\ \E r \in AttendanceQuery(last.arg.employee_id, last.arg.date) :
          r.is_present # last.arg.is_present

\* C5: a well-formed mark-attendance request that is answered while no employee
\* with its employee_id is stored is answered 404 NotFound and adds no record,
\* also when the employee was deleted between the lookup and the insert.
C5_MarkAbsentEmployeeNotFound ==
    [][(/\ Answers("mark_attendance")
        /\ AttendanceCreate(last'.arg)
        /\ EmployeeQuery(last'.arg.employee_id) = {})
       => (last'.status = HTTP_404_NOT_FOUND /\ attendance' = attendance)]_vars

\* C6: a delete-employee answered 204 removes, in that one step, the employee
\* with that employee_id and every attendance record with that employee_id, and
\* nothing else; so afterwards no employee and no record with it is stored.
C6_DeleteRemovesEmployeeAndRecords ==
    [][(Answers("delete_employee") /\ last'.status = HTTP_204_NO_CONTENT)
       => (/\ employees' = {e \in employees : e.employee_id # last'.arg}
           /\ attendance' = {r \in attendance : r.employee_id # last'.arg})]_vars

\* C7: in every reachable state every stored attendance record's employee_id is
\* the employee_id of a stored employee, and an employee just created (also one
\* created again under a deleted employee_id) has no attendance record.
C7_NoOrphans ==
    /\ \A r \in attendance : EmployeeQuery(r.employee_id) # {}
    /\ (last.op = "create_employee" /\ last.status = HTTP_201_CREATED)
          => RowsOf(last.arg.employee_id) = {}

\* employee_id E of row 1 had a record, was deleted and is created again as
\* row 2 (a delete that looked row 1 up is still in hand): no record is E's
C7_Witness ==
    /\ last.op = "create_employee"
    /\ last.status = HTTP_201_CREATED
    /\ last.body.id = 2
    /\ nextAttId = 2
    /\ RowsOf(last.arg.employee_id) = {}
    /\ \E q \in InHand("delete_employee", "commit") :
          q.employee.id = 1 /\ q.employee.employee_id = last.arg.employee_id

\* C8: summary of a stored employee answers total_present_days = P and
\* total_absent_days = A, the numbers of that employee's stored records with
\* is_present true and false; P + A is the number of that employee's records;
\* with no record it answers 0 and 0; summary of an absent employee answers 404.
C8_SummaryCounts ==
    last.op = "get_attendance_summary" =>
        IF EmployeeQuery(last.arg) = {}
        THEN last.status = HTTP_404_NOT_FOUND
        ELSE /\ last.status = 200
             /\ last.body.employee_id = last.arg
             /\ last.body.total_present_days = CountRows(RowsOf(last.arg), TRUE)
             /\ last.body.total_absent_days = CountRows(RowsOf(last.arg), FALSE)
             /\ last.body.total_present_days + last.body.total_absent_days
                    = Cardinality(RowsOf(last.arg))

\* a summary of an employee with a present and an absent record
C8_Witness ==
    /\ last.op = "get_attendance_summary"
    /\ last.status = 200
    /\ last.body.total_present_days = 1
    /\ last.body.total_absent_days = 1

C10_ListFilters ==
    last.op = "list_attendance" =>
        /\ {last.body[i] : i \in 1..Len(last.body)} =
              {r \in attendance :
                  /\ \A d \in last.arg.date : r.date = d
                  /\ \A e \in last.arg.employee_id : r.employee_id = e}
        /\ Len(last.body) = Cardinality({last.body[i] : i \in 1..Len(last.body)})
        /\ \A i, j \in 1..Len(last.body) : i < j => last.body[i].date >= last.body[j].date
====
